---- MODULE Spec2Model ----
(***************************************************************************)
(* Model of the in-exam session controller, TestWindow                     *)
(* (src/test_window.py): countdown timer, violation monitor, save_answer   *)
(* and end_test.                                                           *)
(*                                                                         *)
(* Scheduling.  Qt delivers events on one thread; every handler below runs *)
(* to completion before the next event is delivered, so each handler is    *)
(* one action.  QGuiApplication.quit() ends the event loop: no handler     *)
(* runs after it (quit = TRUE disables every action).                      *)
(*                                                                         *)
(* Time.  time.monotonic() is modelled by `now`, in quarter seconds, so    *)
(* that 0.75 s, 0.5 s and 3 s are the integers 3, 2 and 12.  Single-shot   *)
(* timers are sets of deadlines; a timer may fire at or after its deadline *)
(* (Qt gives no upper bound on the lateness of a timer).  The ticks of the *)
(* 1000 ms countdown QTimer are not tied to `now`: a tick may be delivered *)
(* at any moment while the timer is active.  The _enforce_foreground       *)
(* single-shots are all alike and idempotent: the model keeps whether one  *)
(* is pending.                                                             *)
(*                                                                         *)
(* save_answer.  src/config.py defines Endpoints with LOGIN, INIT_TEST and *)
(* START_TEST only, so the expression Endpoints.UPDATE_ATTEMPT at          *)
(* src/test_window.py:427 raises AttributeError inside the try block,      *)
(* after setDisabled(True) and before requests.post is entered.  The       *)
(* exception is not a requests.RequestException: the finally clause        *)
(* re-enables the window and the exception leaves save_answer.  No request *)
(* is sent and no message box is opened, so save_answer never runs a       *)
(* nested event loop and is atomic.                                        *)
(*                                                                         *)
(* Specifications.  The exam (navigation, answer store, payload) and the   *)
(* session (countdown, violations, end_test) share no variable but the     *)
(* ones save_answer and end_test touch, so they are explored separately:   *)
(*   Spec         the session, with the exam fixed and never navigated;    *)
(*   NavSpec      the exam built from any document of Documents, with      *)
(*                navigation, answer input, Save and End Test;             *)
(*   MonitorSpec  key presses of every combination and application state   *)
(*                changes, with what became of each event recorded;        *)
(*   SaveSpec     the session with every call of save_answer followed      *)
(*                from its entry to its return.                            *)
(* go_to_next_question is the one handler that runs a nested event loop    *)
(* (the modal "End of Section" box); nothing follows the box in it.        *)
(***************************************************************************)
EXTENDS Integers, Naturals, Sequences, FiniteSets, TLC

\* ------------------------------ bounds ---------------------------------
\* duration_minutes given to the constructor ranges over -MaxDuration..MaxDuration
MaxDuration == 1
\* the monotonic clock is followed up to MaxTime quarter seconds in a
\* session without countdown (long enough for an auto-hide to fire) ...
MaxTime == 15
\* ... and up to MaxTimeCountdown quarter seconds in a session with a
\* countdown (long enough for 3 violations and the delayed end_test)
MaxTimeCountdown == 11
\* a choice question offers MaxOptions options
MaxOptions == 3
\* the clock is followed up to MaxMonitorTime quarter seconds where every
\* key combination is delivered (long enough for a dropped and a recorded event)
MaxMonitorTime == 4

\* ------------------------- program constants ---------------------------
SecondsPerMinute == 60
violation_limit == 3
\* 0.75 s, in quarter seconds
Throttle == 3
\* QTimer.singleShot(500, self.end_test), in quarter seconds
EndDelay == 2
\* QTimer.singleShot(3000, hide banner), in quarter seconds
HideDelay == 12

\* attributes of class Endpoints
Endpoints == {"LOGIN", "INIT_TEST", "START_TEST"}

Durations == (0 - MaxDuration)..MaxDuration

Max(a, b) == IF a >= b THEN a ELSE b

Triggers == {"user", "timer", "violation"}

\* key presses the environment delivers: <<event.key(), event.modifiers()>>
KeyEvents == {<<"Key_Tab", {"AltModifier"}>>, <<"Key_A", {}>>}
ApplicationStates == {"ApplicationActive", "ApplicationInactive"}

\* event.key() and event.modifiers() of the key presses delivered where
\* every combination is tried
Keys == {"Key_Tab", "Key_F4", "Key_Meta", "Key_Super_L", "Key_Super_R",
         "Key_Escape", "Key_Alt", "Key_A"}
ModifierSets == {{}, {"AltModifier"}, {"ControlModifier"},
                 {"ControlModifier", "ShiftModifier"}, {"MetaModifier"}}
AllKeyEvents == {<<k, m>> : k \in Keys, m \in ModifierSets}

\* ------------------------------ the exam -------------------------------
\* q.get("type") of a question; "unknown" is any other value, or none
QuestionTypes == {"mcq", "msq", "open-ended", "unknown"}

\* the options of a choice question are numbered 1..MaxOptions (1-based)
Options == 1..MaxOptions

\* texts a QLineEdit delivers, as sequences of characters: "", " " and " x "
Texts == {<<>>, <<" ">>, <<" ", "x", " ">>}

\* the "sections" of a document: a section is the sequence of the types of
\* its questions (a section without "questions" is a section with none)
Exams == {<<>>,
          << <<"mcq", "msq", "open-ended">> >>,
          << <<"msq", "unknown">>, <<>> >>,
          << <<"open-ended">>, <<"mcq">> >>}

\* question_json_string.  json: "invalid" is a text json.loads rejects,
\* "non_object" a JSON array, number, string or null, "object" a JSON object
\* with or without the keys "title" and "sections"
Document(json, has_title, title, has_sections, secs) ==
    [json |-> json, has_title |-> has_title, title |-> title,
     has_sections |-> has_sections, sections |-> secs]

Documents ==
    {Document("invalid", FALSE, "", FALSE, <<>>),
     Document("non_object", FALSE, "", FALSE, <<>>),
     Document("object", FALSE, "", FALSE, <<>>),
     Document("object", TRUE, "Exam", FALSE, <<>>)}
    \cup {Document("object", FALSE, "", TRUE, e) : e \in Exams}
    \cup {Document("object", TRUE, "Exam", TRUE, e) : e \in Exams}

\* the document of a session whose exam plays no part
DefaultDocument ==
    Document("object", TRUE, "Exam", TRUE, << <<"mcq", "msq", "open-ended">> >>)

\* the documents the specification calls malformed
Malformed(doc) ==
    \/ doc.json # "object"
    \/ ~doc.has_title
    \/ ~doc.has_sections

\* json.loads inside try/except Exception: a text that does not parse gives
\* {"title": "Test", "sections": []}
json_loads(doc) ==
    IF doc.json = "invalid"
    THEN Document("object", TRUE, "Test", TRUE, <<>>)
    ELSE doc

\* question_json.get(...) raises AttributeError when the value is no dict
ConstructionFault(doc) ==
    IF json_loads(doc).json = "object" THEN "none" ELSE "AttributeError"

\* question_json.get("sections", [])
SectionsOf(doc) ==
    IF json_loads(doc).has_sections THEN json_loads(doc).sections ELSE <<>>

\* question_json.get("title", "Test")
TitleOf(doc) ==
    IF json_loads(doc).has_title THEN json_loads(doc).title ELSE "Test"

\* values of self.answers[s][q]; tag "None" is the absent key
NoAnswer == [tag |-> "None", int |-> 0, set |-> {}, str |-> <<>>]
IntAnswer(i) == [tag |-> "int", int |-> i, set |-> {}, str |-> <<>>]
SetAnswer(S) == [tag |-> "set", int |-> 0, set |-> S, str |-> <<>>]
StrAnswer(t) == [tag |-> "str", int |-> 0, set |-> {}, str |-> t]

\* the (section, question) pairs of an exam, 0-based as in the code
Slots(secs) ==
    UNION {{<<s, q>> : q \in 0..(Len(secs[s + 1]) - 1)} : s \in 0..(Len(secs) - 1)}

\* str.strip(): leading and trailing white space removed
RECURSIVE lstrip(_)
lstrip(t) == IF t # <<>> /\ Head(t) = " " THEN lstrip(Tail(t)) ELSE t

RECURSIVE rstrip(_)
rstrip(t) ==
    IF t # <<>> /\ t[Len(t)] = " " THEN rstrip(SubSeq(t, 1, Len(t) - 1)) ELSE t

strip(t) == rstrip(lstrip(t))

Min(S) == CHOOSE x \in S : \A y \in S : x <= y
MaxOf(S) == CHOOSE x \in S : \A y \in S : x >= y

\* the elements of S listed from the largest down
RECURSIVE sorted_descending(_)
sorted_descending(S) ==
    IF S = {} THEN <<>> ELSE <<MaxOf(S)>> \o sorted_descending(S \ {MaxOf(S)})

\* sorted(list(stored))
RECURSIVE sorted(_)
sorted(S) == IF S = {} THEN <<>> ELSE <<Min(S)>> \o sorted(S \ {Min(S)})

VARIABLES
    duration_minutes,    \* constructor argument
    remaining_seconds,   \* self.remaining_seconds
    _countdown_timer,    \* "None" | "active" | "stopped"
    _ending,             \* self._ending
    quit,                \* QGuiApplication.quit() has been called
    enabled,             \* the window is enabled (setDisabled)
    violation_count,     \* self.violation_count
    _last_violation_ts,  \* self._last_violation_ts
    warning_visible,     \* self.warning_label.isVisible()
    warning_text,        \* <<count, reason>> shown by the banner, <<>> when empty
    now,                 \* time.monotonic()
    end_timers,          \* deadlines of pending singleShot(500, end_test)
    hide_timers,         \* deadlines of pending singleShot(3000, hide banner)
    foreground_timers,   \* a singleShot(0, _enforce_foreground) is pending
    \* history variables
    end_calls,           \* end_test invocations, per trigger
    terminal_saves,      \* save_answer calls made by end_test
    save_result,         \* how the latest interactive save_answer ended
    ticks,               \* _tick_countdown invocations
    ev_dropped,          \* the latest call of _record_violation was throttled
    \* the exam, navigation and the answer store
    question_json_string, \* constructor argument, a member of Documents
    fault,               \* exception that left the constructor or a handler
    test_title,          \* self.test_title
    sections,            \* self.sections
    selected_section,    \* self.selected_section (0-based)
    selected_question,   \* self.selected_question (0-based)
    question_buttons,    \* len(self.question_buttons)
    question_widget,     \* what _update_question_display put in question_layout
    dialog_open,         \* the "End of Section" message box is open
    answers,             \* self.answers, as a function on Slots(sections)
    \* history variables
    nav_op,              \* the latest navigation call and where it started
    last_toggle,         \* per msq slot and option, its latest toggle
    last_choice,         \* per slot, the option of its latest toggled(True), 0 if none
    payload,             \* what the latest _build_answer_payload returned,
                         \* forgotten at the next answer write
    key_event,           \* the latest key press delivered, <<key, modifiers>>
    forwarded,           \* that key press was passed on (focus widget or base)
    key_reason,          \* reason that key press gave to _record_violation
    app_state,           \* the latest application state delivered
    app_reason,          \* reason that state change gave to _record_violation
    restored,            \* _enforce_foreground ran after the latest focus loss
    call_stack           \* the calls of save_answer in progress, outermost
                         \* first, each named by its caller

progVars == <<duration_minutes, remaining_seconds, _countdown_timer, _ending, quit,
              enabled, violation_count, _last_violation_ts, warning_visible,
              warning_text, now, end_timers, hide_timers, foreground_timers>>
histVars == <<end_calls, terminal_saves, save_result, ticks, ev_dropped>>
examVars == <<question_json_string, fault, test_title, sections, selected_section,
              selected_question, question_buttons, question_widget, dialog_open,
              nav_op, last_toggle, last_choice>>
inputHist == <<key_event, forwarded, key_reason, app_state, app_reason, restored,
               call_stack>>
vars == <<progVars, histVars, examVars, answers, payload, inputHist>>

\* what end_test reads or writes
endVars == <<_ending, quit, enabled, end_calls, terminal_saves, answers, payload>>
violationVars == <<violation_count, _last_violation_ts, warning_visible, warning_text,
                   end_timers, hide_timers, ev_dropped>>
timerVars == <<remaining_seconds, _countdown_timer, ticks>>

\* --------------------------- construction ------------------------------
\* the clamp max(0, .) left out
InitialSeconds_unclamped(d) == d * SecondsPerMinute

InitialSeconds(d) == Max(0, d) * SecondsPerMinute

\* `<` written for `<=`
_init_countdown_timer_strict(rem) == IF rem < 0 THEN "None" ELSE "active"

_init_countdown_timer(rem) == IF rem <= 0 THEN "None" ELSE "active"

\* one button more than the section has questions
_populate_question_bar_one_more(secs, s) ==
    IF secs = <<>> THEN 0
    ELSE IF s \notin 0..(Len(secs) - 1) THEN 0
    ELSE Len(secs[s + 1]) + 1

\* _populate_question_bar: the number of question buttons it leaves
_populate_question_bar(secs, s) ==
    IF secs = <<>> THEN 0
    ELSE IF s \notin 0..(Len(secs) - 1) THEN 0
    ELSE Len(secs[s + 1])

\* _update_question_display: the input widgets it leaves in question_layout,
\* "IndexError" when sections[s] or questions[q] is out of range
_update_question_display(secs, s, q) ==
    IF secs = <<>> THEN "no_sections"
    ELSE IF s \notin 0..(Len(secs) - 1) THEN "IndexError"
    ELSE IF secs[s + 1] = <<>> THEN "no_questions"
    ELSE IF q \notin 0..(Len(secs[s + 1]) - 1) THEN "IndexError"
    ELSE secs[s + 1][q + 1]

\* the Save and Next buttons exist below a displayed question
QuestionShown == question_widget \in QuestionTypes

NoNavOp == [op |-> "none", arg |-> 0, from_s |-> 0, from_q |-> 0]
NoPayload == [built |-> FALSE, sections |-> <<>>]

\* the session state after lines 60 and 90-103 of the constructor
InitSession ==
    /\ remaining_seconds = InitialSeconds(duration_minutes)
    /\ _countdown_timer = _init_countdown_timer(InitialSeconds(duration_minutes))
    /\ _ending = FALSE
    /\ quit = FALSE
    /\ enabled = TRUE
    /\ violation_count = 0
    /\ _last_violation_ts = 0
    /\ warning_visible = FALSE
    /\ warning_text = <<>>
    /\ now = 0
    /\ end_timers = {}
    /\ hide_timers = {}
    /\ foreground_timers = FALSE
    /\ end_calls = [t \in Triggers |-> 0]
    /\ terminal_saves = 0
    /\ save_result = "none"
    /\ ticks = 0
    /\ ev_dropped = FALSE
    /\ key_event = <<"none", {}>>
    /\ forwarded = FALSE
    /\ key_reason = "none"
    /\ app_state = "none"
    /\ app_reason = "none"
    /\ restored = FALSE
    /\ call_stack = <<>>

\* the exam state after lines 62-80 and 99-102 of the constructor, given
\* the document doc; when the constructor raises there is no window
InitExam(doc) ==
    /\ question_json_string = doc
    /\ fault = ConstructionFault(doc)
    /\ sections = IF ConstructionFault(doc) = "none" THEN SectionsOf(doc) ELSE <<>>
    /\ test_title = IF ConstructionFault(doc) = "none" THEN TitleOf(doc) ELSE "unset"
    /\ selected_section = 0
    /\ selected_question = 0
    /\ question_buttons = _populate_question_bar(sections, 0)
    /\ question_widget = IF ConstructionFault(doc) = "none"
                         THEN _update_question_display(sections, 0, 0)
                         ELSE "unset"
    /\ dialog_open = FALSE
    /\ answers = [slot \in Slots(sections) |-> NoAnswer]
    /\ nav_op = NoNavOp
    /\ last_toggle = [slot \in Slots(sections) |-> [o \in Options |-> "never"]]
    /\ last_choice = [slot \in Slots(sections) |-> 0]
    /\ payload = NoPayload

Init ==
    /\ duration_minutes \in Durations
    /\ InitSession
    /\ InitExam(DefaultDocument)

\* ------------------------- _build_answer_payload -----------------------
\* q.get("type") of question q of section s
TypeOf(s, q) == sections[s + 1][q + 1]

\* the test of the trimmed text left out
Contributes_no_strip(s, q) ==
    LET stored == answers[<<s, q>>]
        q_type == TypeOf(s, q)
    IN  IF stored.tag = "None" THEN FALSE
        ELSE \/ q_type = "mcq" /\ stored.tag = "int"
             \/ q_type = "msq" /\ stored.tag = "set" /\ stored.set # {}
             \/ q_type = "open-ended" /\ stored.tag = "str"

\* question q of section s appends an entry to answers_list
Contributes(s, q) ==
    LET stored == answers[<<s, q>>]
        q_type == TypeOf(s, q)
    IN  IF stored.tag = "None" THEN FALSE
        ELSE \/ q_type = "mcq" /\ stored.tag = "int"
             \/ q_type = "msq" /\ stored.tag = "set" /\ stored.set # {}
             \/ q_type = "open-ended" /\ stored.tag = "str"
                /\ strip(stored.str) # <<>>

\* the entry of a contributing question; field names the key that carries
\* the value ("CorrectOption", "CorrectOptions" or "answer")
Entry(s, q) ==
    LET stored == answers[<<s, q>>]
    IN  [questionNumber |-> q + 1,
         field |-> IF stored.tag = "int" THEN "CorrectOption"
                   ELSE IF stored.tag = "set" THEN "CorrectOptions"
                   ELSE "answer",
         CorrectOption |-> stored.int,
         CorrectOptions |-> sorted(stored.set),
         answer |-> stored.str]

\* answers_list of section s, from question q on
RECURSIVE answers_list(_, _)
answers_list(s, q) ==
    IF q >= Len(sections[s + 1]) THEN <<>>
    ELSE (IF Contributes(s, q) THEN <<Entry(s, q)>> ELSE <<>>) \o answers_list(s, q + 1)

\* sections_payload, from section s on
RECURSIVE sections_payload(_)
sections_payload(s) ==
    IF s >= Len(sections) THEN <<>>
    ELSE (IF answers_list(s, 0) # <<>>
          THEN <<[sectionId |-> s + 1, answers |-> answers_list(s, 0)]>>
          ELSE <<>>) \o sections_payload(s + 1)

\* payload["answer"]["sections"]; email, token and attempt_id are copied
\* from the constructor arguments
_build_answer_payload == [built |-> TRUE, sections |-> sections_payload(0)]

\* the event loop is delivering events to a constructed window
Running == ~quit /\ fault # "AttributeError"
\* the window accepts mouse and key input
Interactive == Running /\ enabled
\* the window accepts mouse clicks: no modal message box is open
Clickable == Interactive /\ ~dialog_open

\* ---------------------------- save_answer ------------------------------
\* setDisabled(True); Endpoints.UPDATE_ATTEMPT raises AttributeError, which
\* no except clause catches; finally: setDisabled(False); the exception
\* leaves save_answer.  requests.post and the message boxes are not reached.
\* the answers are emptied once the payload is built
save_answer_drains ==
    /\ payload' = _build_answer_payload
    /\ answers' = [slot \in DOMAIN answers |-> NoAnswer]
    /\ "UPDATE_ATTEMPT" \notin Endpoints
    /\ enabled' = TRUE

\* payload = self._build_answer_payload() reads self.answers and leaves it
save_answer ==
    /\ payload' = _build_answer_payload
    /\ answers' = answers
    /\ "UPDATE_ATTEMPT" \notin Endpoints
    /\ enabled' = TRUE

\* Save button.  save_result: "none" before the first save, "saved" after the
\* information box, "failure_reported" after the warning or critical box,
\* "exception" when an exception left save_answer and nothing was shown.
SaveClicked ==
    /\ Clickable
    /\ QuestionShown
    /\ save_answer
    /\ save_result' = "exception"
    /\ UNCHANGED <<duration_minutes, _ending, quit, now, foreground_timers,
                   end_calls, terminal_saves>>
    /\ UNCHANGED <<examVars, inputHist>>
    /\ UNCHANGED <<violationVars, timerVars>>

\* ----------------------------- end_test --------------------------------
\* self._ending = True left out
end_test_flag_not_set(trigger) ==
    /\ end_calls' = [end_calls EXCEPT ![trigger] = @ + 1]
    /\ IF _ending
       THEN UNCHANGED <<_ending, quit, enabled, terminal_saves, answers, payload>>
       ELSE /\ _ending' = _ending
            /\ terminal_saves' = terminal_saves + 1
            /\ save_answer
            /\ quit' = TRUE

\* quit() written after save_answer() without try/finally: the exception skips it
end_test_no_finally(trigger) ==
    /\ end_calls' = [end_calls EXCEPT ![trigger] = @ + 1]
    /\ IF _ending
       THEN UNCHANGED <<_ending, quit, enabled, terminal_saves, answers, payload>>
       ELSE /\ _ending' = TRUE
            /\ terminal_saves' = terminal_saves + 1
            /\ save_answer
            /\ quit' = quit

\* the window is hidden instead of the application being quit
end_test_hides_window(trigger) ==
    /\ end_calls' = [end_calls EXCEPT ![trigger] = @ + 1]
    /\ IF _ending
       THEN UNCHANGED <<_ending, quit, enabled, terminal_saves, answers, payload>>
       ELSE /\ _ending' = TRUE
            /\ terminal_saves' = terminal_saves + 1
            /\ save_answer
            /\ UNCHANGED quit

end_test(trigger) ==
    /\ end_calls' = [end_calls EXCEPT ![trigger] = @ + 1]
    /\ IF _ending
       THEN UNCHANGED <<_ending, quit, enabled, terminal_saves, answers, payload>>
       ELSE /\ _ending' = TRUE
            /\ terminal_saves' = terminal_saves + 1
            /\ save_answer
            /\ quit' = TRUE

\* End Test button
EndClicked ==
    /\ Clickable
    /\ end_test("user")
    /\ UNCHANGED <<duration_minutes, now, foreground_timers, save_result>>
    /\ UNCHANGED <<examVars, inputHist>>
    /\ UNCHANGED <<violationVars, timerVars>>

\* --------------------------- countdown timer ---------------------------
\* self._countdown_timer.stop() left out
_tick_countdown_no_stop ==
    /\ Running
    /\ _countdown_timer = "active"
    /\ ticks' = ticks + 1
    /\ IF remaining_seconds > 0
       THEN /\ remaining_seconds' = remaining_seconds - 1
            /\ IF remaining_seconds' = 0 /\ _countdown_timer # "None"
               THEN /\ _countdown_timer' = _countdown_timer
                    /\ end_test("timer")
               ELSE UNCHANGED <<_countdown_timer, endVars>>
       ELSE UNCHANGED <<remaining_seconds, _countdown_timer, endVars>>
    /\ UNCHANGED <<duration_minutes, now, foreground_timers, save_result>>
    /\ UNCHANGED <<examVars, inputHist>>
    /\ UNCHANGED violationVars

_tick_countdown ==
    /\ Running
    /\ _countdown_timer = "active"
    /\ ticks' = ticks + 1
    /\ IF remaining_seconds > 0
       THEN /\ remaining_seconds' = remaining_seconds - 1
            /\ IF remaining_seconds' = 0 /\ _countdown_timer # "None"
               THEN /\ _countdown_timer' = "stopped"
                    /\ end_test("timer")
               ELSE UNCHANGED <<_countdown_timer, endVars>>
       ELSE UNCHANGED <<remaining_seconds, _countdown_timer, endVars>>
    /\ UNCHANGED <<duration_minutes, now, foreground_timers, save_result>>
    /\ UNCHANGED <<examVars, inputHist>>
    /\ UNCHANGED violationVars

\* -------------------------- violation monitor --------------------------
\* the timestamp is taken before the throttle test
_record_violation_stamps_dropped(reason) ==
    IF now - _last_violation_ts < Throttle
    THEN /\ ev_dropped' = TRUE
         /\ _last_violation_ts' = now
         /\ UNCHANGED <<violation_count, warning_visible,
                        warning_text, end_timers, hide_timers>>
    ELSE /\ ev_dropped' = FALSE
         /\ _last_violation_ts' = now
         /\ violation_count' = violation_count + 1
         /\ warning_text' = <<violation_count', reason>>
         /\ warning_visible' = TRUE
         /\ hide_timers' = IF violation_count' < violation_limit
                           THEN hide_timers \cup {now + HideDelay}
                           ELSE hide_timers
         /\ end_timers' = IF violation_count' >= violation_limit
                          THEN end_timers \cup {now + EndDelay}
                          ELSE end_timers

\* the banner is set before the throttle test
_record_violation_shows_dropped(reason) ==
    IF now - _last_violation_ts < Throttle
    THEN /\ ev_dropped' = TRUE
         /\ warning_text' = <<violation_count, reason>>
         /\ warning_visible' = TRUE
         /\ UNCHANGED <<violation_count, _last_violation_ts, end_timers,
                        hide_timers>>
    ELSE /\ ev_dropped' = FALSE
         /\ _last_violation_ts' = now
         /\ violation_count' = violation_count + 1
         /\ warning_text' = <<violation_count', reason>>
         /\ warning_visible' = TRUE
         /\ hide_timers' = IF violation_count' < violation_limit
                           THEN hide_timers \cup {now + HideDelay}
                           ELSE hide_timers
         /\ end_timers' = IF violation_count' >= violation_limit
                          THEN end_timers \cup {now + EndDelay}
                          ELSE end_timers

\* the limit test is off by one: end_test is scheduled at limit - 1
_record_violation_early_end(reason) ==
    IF now - _last_violation_ts < Throttle
    THEN /\ ev_dropped' = TRUE
         /\ UNCHANGED <<violation_count, _last_violation_ts, warning_visible,
                        warning_text, end_timers, hide_timers>>
    ELSE /\ ev_dropped' = FALSE
         /\ _last_violation_ts' = now
         /\ violation_count' = violation_count + 1
         /\ warning_text' = <<violation_count', reason>>
         /\ warning_visible' = TRUE
         /\ hide_timers' = IF violation_count' < violation_limit
                           THEN hide_timers \cup {now + HideDelay}
                           ELSE hide_timers
         /\ end_timers' = IF violation_count' >= violation_limit - 1
                          THEN end_timers \cup {now + EndDelay}
                          ELSE end_timers

\* `>` written for `>=`: end_test is scheduled only past the limit
_record_violation_late_end(reason) ==
    IF now - _last_violation_ts < Throttle
    THEN /\ ev_dropped' = TRUE
         /\ UNCHANGED <<violation_count, _last_violation_ts, warning_visible,
                        warning_text, end_timers, hide_timers>>
    ELSE /\ ev_dropped' = FALSE
         /\ _last_violation_ts' = now
         /\ violation_count' = violation_count + 1
         /\ warning_text' = <<violation_count', reason>>
         /\ warning_visible' = TRUE
         /\ hide_timers' = IF violation_count' < violation_limit
                           THEN hide_timers \cup {now + HideDelay}
                           ELSE hide_timers
         /\ end_timers' = IF violation_count' > violation_limit
                          THEN end_timers \cup {now + EndDelay}
                          ELSE end_timers

_record_violation(reason) ==
    IF now - _last_violation_ts < Throttle
    THEN /\ ev_dropped' = TRUE
         /\ UNCHANGED <<violation_count, _last_violation_ts, warning_visible,
                        warning_text, end_timers, hide_timers>>
    ELSE /\ ev_dropped' = FALSE
         /\ _last_violation_ts' = now
         /\ violation_count' = violation_count + 1
         /\ warning_text' = <<violation_count', reason>>
         /\ warning_visible' = TRUE
         /\ hide_timers' = IF violation_count' < violation_limit
                           THEN hide_timers \cup {now + HideDelay}
                           ELSE hide_timers
         /\ end_timers' = IF violation_count' >= violation_limit
                          THEN end_timers \cup {now + EndDelay}
                          ELSE end_timers

\* reason passed to _record_violation, "none" when the key is not forbidden
_handle_forbidden_key(key, mods) ==
    IF key = "Key_Tab" /\ "AltModifier" \in mods THEN "Alt+Tab detected"
    ELSE IF key = "Key_F4" /\ "AltModifier" \in mods THEN "Alt+F4 detected"
    ELSE IF key \in {"Key_Meta", "Key_Super_L", "Key_Super_R"} THEN "Windows key detected"
    ELSE IF key = "Key_Escape" /\ "ControlModifier" \in mods THEN "Ctrl+Esc detected"
    ELSE IF key = "Key_Escape" /\ "ControlModifier" \in mods /\ "ShiftModifier" \in mods
         THEN "Ctrl+Shift+Esc detected"
    ELSE IF key = "Key_Alt" THEN "Alt key detected"
    ELSE "none"

keyPressEvent ==
    /\ Interactive
    /\ \E ev \in KeyEvents :
         IF _handle_forbidden_key(ev[1], ev[2]) # "none"
         THEN _record_violation(_handle_forbidden_key(ev[1], ev[2]))
         ELSE UNCHANGED violationVars
    /\ UNCHANGED <<duration_minutes, now, foreground_timers, save_result>>
    /\ UNCHANGED <<examVars, inputHist>>
    /\ UNCHANGED <<endVars, timerVars>>

_on_app_state_changed ==
    /\ Running
    /\ \E state \in ApplicationStates :
         IF state = "ApplicationInactive"
         THEN /\ _record_violation("Application switched or unfocused")
              /\ foreground_timers' = TRUE
         ELSE UNCHANGED <<violationVars, foreground_timers>>
    /\ UNCHANGED <<duration_minutes, now, save_result>>
    /\ UNCHANGED <<examVars, inputHist>>
    /\ UNCHANGED <<endVars, timerVars>>

_enforce_foreground ==
    /\ Running
    /\ foreground_timers
    /\ foreground_timers' = FALSE
    /\ UNCHANGED <<duration_minutes, now, save_result>>
    /\ UNCHANGED <<examVars, inputHist>>
    /\ UNCHANGED <<endVars, timerVars, violationVars>>

\* QTimer.singleShot(500, self.end_test) fires
EndTimerFires ==
    /\ Running
    /\ \E d \in end_timers :
         /\ d <= now
         /\ end_timers' = end_timers \ {d}
    /\ end_test("violation")
    /\ UNCHANGED <<duration_minutes, now, foreground_timers, save_result>>
    /\ UNCHANGED <<examVars, inputHist>>
    /\ UNCHANGED <<violation_count, _last_violation_ts, warning_visible, warning_text,
                   hide_timers, ev_dropped>>
    /\ UNCHANGED timerVars

\* QTimer.singleShot(3000, lambda: ... setVisible(False)) fires
HideTimerFires ==
    /\ Running
    /\ \E d \in hide_timers :
         /\ d <= now
         /\ hide_timers' = hide_timers \ {d}
    /\ warning_visible' = FALSE
    /\ UNCHANGED <<duration_minutes, now, foreground_timers, save_result>>
    /\ UNCHANGED <<examVars, inputHist>>
    /\ UNCHANGED <<violation_count, _last_violation_ts, warning_text,
                   end_timers, ev_dropped>>
    /\ UNCHANGED <<endVars, timerVars>>

\* how far the clock is followed in a session constructed with duration d
TimeBound(d) == IF d > 0 THEN MaxTimeCountdown ELSE MaxTime

\* the monotonic clock advances by a quarter second
AdvanceTime ==
    /\ Running
    /\ now < TimeBound(duration_minutes)
    /\ now' = now + 1
    /\ UNCHANGED <<duration_minutes, foreground_timers, save_result>>
    /\ UNCHANGED <<examVars, inputHist>>
    /\ UNCHANGED <<endVars, timerVars, violationVars>>

Next ==
    \/ SaveClicked
    \/ EndClicked
    \/ _tick_countdown
    \/ keyPressEvent
    \/ _on_app_state_changed
    \/ _enforce_foreground
    \/ EndTimerFires
    \/ HideTimerFires
    \/ AdvanceTime

Spec == Init /\ [][Next]_vars

\* ----------------------------- navigation ------------------------------
\* what the navigation and answer handlers leave alone
sessionVars == <<progVars, histVars, inputHist>>

\* self.selected_question = 0 left out
select_section_keeps_question ==
    /\ Clickable
    /\ \E section_idx \in 0..(Len(sections) - 1) :
         /\ selected_section' = section_idx
         /\ selected_question' = selected_question
         /\ question_buttons' = _populate_question_bar(sections, section_idx)
         /\ question_widget' =
                _update_question_display(sections, section_idx, selected_question)
         /\ nav_op' = [op |-> "select_section", arg |-> section_idx,
                       from_s |-> selected_section, from_q |-> selected_question]
    /\ fault' = IF question_widget' = "IndexError" THEN "IndexError" ELSE fault
    /\ UNCHANGED <<question_json_string, test_title, sections, dialog_open,
                   last_toggle, last_choice, answers, payload>>
    /\ UNCHANGED sessionVars

\* a section button is clicked; there is one button per section
select_section ==
    /\ Clickable
    /\ \E section_idx \in 0..(Len(sections) - 1) :
         /\ selected_section' = section_idx
         /\ selected_question' = 0
         /\ question_buttons' = _populate_question_bar(sections, section_idx)
         /\ question_widget' = _update_question_display(sections, section_idx, 0)
         /\ nav_op' = [op |-> "select_section", arg |-> section_idx,
                       from_s |-> selected_section, from_q |-> selected_question]
    /\ fault' = IF question_widget' = "IndexError" THEN "IndexError" ELSE fault
    /\ UNCHANGED <<question_json_string, test_title, sections, dialog_open,
                   last_toggle, last_choice, answers, payload>>
    /\ UNCHANGED sessionVars

\* self._update_question_display() left out: the widgets of the question
\* shown before stay in place
select_question_no_refresh ==
    /\ Clickable
    /\ \E question_idx \in 0..(question_buttons - 1) :
         /\ selected_question' = question_idx
         /\ question_buttons' = _populate_question_bar(sections, selected_section)
         /\ question_widget' = question_widget
         /\ nav_op' = [op |-> "select_question", arg |-> question_idx,
                       from_s |-> selected_section, from_q |-> selected_question]
    /\ fault' = IF question_widget' = "IndexError" THEN "IndexError" ELSE fault
    /\ UNCHANGED <<question_json_string, test_title, sections, selected_section,
                   dialog_open, last_toggle, last_choice, answers, payload>>
    /\ UNCHANGED sessionVars

\* the msq branch reads the stored set with setdefault((s, q), set()): showing
\* an msq question without a stored value stores an empty set
select_question_setdefault ==
    /\ Clickable
    /\ \E question_idx \in 0..(question_buttons - 1) :
         /\ selected_question' = question_idx
         /\ question_buttons' = _populate_question_bar(sections, selected_section)
         /\ question_widget' =
                _update_question_display(sections, selected_section, question_idx)
         /\ nav_op' = [op |-> "select_question", arg |-> question_idx,
                       from_s |-> selected_section, from_q |-> selected_question]
         /\ answers' =
                IF /\ question_widget' = "msq"
                   /\ answers[<<selected_section, question_idx>>].tag = "None"
                THEN [answers EXCEPT ![<<selected_section, question_idx>>] =
                          SetAnswer({})]
                ELSE answers
    /\ fault' = IF question_widget' = "IndexError" THEN "IndexError" ELSE fault
    /\ UNCHANGED <<question_json_string, test_title, sections, selected_section,
                   dialog_open, last_toggle, last_choice, payload>>
    /\ UNCHANGED sessionVars

\* a question button is clicked; there is one button per question of the
\* current section
select_question ==
    /\ Clickable
    /\ \E question_idx \in 0..(question_buttons - 1) :
         /\ selected_question' = question_idx
         /\ question_buttons' = _populate_question_bar(sections, selected_section)
         /\ question_widget' =
                _update_question_display(sections, selected_section, question_idx)
         /\ nav_op' = [op |-> "select_question", arg |-> question_idx,
                       from_s |-> selected_section, from_q |-> selected_question]
    /\ fault' = IF question_widget' = "IndexError" THEN "IndexError" ELSE fault
    /\ UNCHANGED <<question_json_string, test_title, sections, selected_section,
                   dialog_open, last_toggle, last_choice, answers, payload>>
    /\ UNCHANGED sessionVars

\* `<=` written for `<`
go_to_next_question_off_by_one ==
    /\ Clickable
    /\ nav_op' = [op |-> "next", arg |-> 0,
                  from_s |-> selected_section, from_q |-> selected_question]
    /\ IF sections = <<>>
       THEN UNCHANGED <<selected_question, question_buttons, question_widget,
                        dialog_open>>
       ELSE IF selected_question <= Len(sections[selected_section + 1]) - 1
       THEN /\ selected_question' = selected_question + 1
            /\ question_buttons' = _populate_question_bar(sections, selected_section)
            /\ question_widget' = _update_question_display(sections, selected_section,
                                                           selected_question + 1)
            /\ UNCHANGED dialog_open
       ELSE /\ dialog_open' = TRUE
            /\ UNCHANGED <<selected_question, question_buttons, question_widget>>
    /\ fault' = IF question_widget' = "IndexError" THEN "IndexError" ELSE fault
    /\ UNCHANGED <<question_json_string, test_title, sections, selected_section,
                   last_toggle, last_choice, answers, payload>>
    /\ UNCHANGED sessionVars

\* the slot of the Next button, a public method: it is called in every
\* state of the navigation, also where no question is shown.  At the last
\* question QMessageBox.information opens a modal box and runs a nested
\* event loop until the box is closed; nothing follows it in the handler.
go_to_next_question ==
    /\ Clickable
    /\ nav_op' = [op |-> "next", arg |-> 0,
                  from_s |-> selected_section, from_q |-> selected_question]
    /\ IF sections = <<>>
       THEN UNCHANGED <<selected_question, question_buttons, question_widget,
                        dialog_open>>
       ELSE IF selected_question < Len(sections[selected_section + 1]) - 1
       THEN /\ selected_question' = selected_question + 1
            /\ question_buttons' = _populate_question_bar(sections, selected_section)
            /\ question_widget' = _update_question_display(sections, selected_section,
                                                           selected_question + 1)
            /\ UNCHANGED dialog_open
       ELSE /\ dialog_open' = TRUE
            /\ UNCHANGED <<selected_question, question_buttons, question_widget>>
    /\ fault' = IF question_widget' = "IndexError" THEN "IndexError" ELSE fault
    /\ UNCHANGED <<question_json_string, test_title, sections, selected_section,
                   last_toggle, last_choice, answers, payload>>
    /\ UNCHANGED sessionVars

\* the "End of Section" box is closed
DialogClosed ==
    /\ Running
    /\ dialog_open
    /\ dialog_open' = FALSE
    /\ UNCHANGED <<question_json_string, fault, test_title, sections, selected_section,
                   selected_question, question_buttons, question_widget, nav_op,
                   last_toggle, last_choice, answers, payload>>
    /\ UNCHANGED sessionVars

\* ---------------------------- answer store -----------------------------
\* `if checked:` left out: the toggled(False) of a radio button is stored too
_on_mcq_toggled_stores_unchecked(section_idx, question_idx, option_1based, checked) ==
    /\ answers' = [answers EXCEPT ![<<section_idx, question_idx>>] =
                       IntAnswer(option_1based)]
    /\ payload' = NoPayload
    /\ last_choice' = IF checked
                      THEN [last_choice EXCEPT ![<<section_idx, question_idx>>] =
                                option_1based]
                      ELSE last_choice
    /\ UNCHANGED last_toggle

_on_mcq_toggled(section_idx, question_idx, option_1based, checked) ==
    /\ answers' = IF checked
                  THEN [answers EXCEPT ![<<section_idx, question_idx>>] =
                            IntAnswer(option_1based)]
                  ELSE answers
    /\ payload' = IF checked THEN NoPayload ELSE payload
    /\ last_choice' = IF checked
                      THEN [last_choice EXCEPT ![<<section_idx, question_idx>>] =
                                option_1based]
                      ELSE last_choice
    /\ UNCHANGED last_toggle

\* current.discard(option_1based) left out
_on_msq_changed_never_discards(section_idx, question_idx, option_1based, checked) ==
    LET stored == answers[<<section_idx, question_idx>>]
        current == IF stored.tag = "set" THEN stored.set ELSE {}
    IN  /\ answers' = [answers EXCEPT ![<<section_idx, question_idx>>] =
                          SetAnswer(IF checked
                                    THEN current \cup {option_1based}
                                    ELSE current)]
        /\ payload' = NoPayload
        /\ last_toggle' = [last_toggle EXCEPT
                              ![<<section_idx, question_idx>>][option_1based] =
                                  IF checked THEN "selected" ELSE "deselected"]
        /\ UNCHANGED last_choice

\* current is the stored set, or a new empty set when the stored value is
\* not a set; the set is stored back also when it is empty or unchanged
_on_msq_changed(section_idx, question_idx, option_1based, checked) ==
    LET stored == answers[<<section_idx, question_idx>>]
        current == IF stored.tag = "set" THEN stored.set ELSE {}
    IN  /\ answers' = [answers EXCEPT ![<<section_idx, question_idx>>] =
                          SetAnswer(IF checked
                                    THEN current \cup {option_1based}
                                    ELSE current \ {option_1based})]
        /\ payload' = NoPayload
        /\ last_toggle' = [last_toggle EXCEPT
                              ![<<section_idx, question_idx>>][option_1based] =
                                  IF checked THEN "selected" ELSE "deselected"]
        /\ UNCHANGED last_choice

\* an empty text removes the entry instead of being stored
_set_open_answer_pops_empty(section_idx, question_idx, text) ==
    /\ answers' = [answers EXCEPT ![<<section_idx, question_idx>>] =
                       IF text = <<>> THEN NoAnswer ELSE StrAnswer(text)]
    /\ payload' = NoPayload
    /\ UNCHANGED <<last_toggle, last_choice>>

_set_open_answer(section_idx, question_idx, text) ==
    /\ answers' = [answers EXCEPT ![<<section_idx, question_idx>>] = StrAnswer(text)]
    /\ payload' = NoPayload
    /\ UNCHANGED <<last_toggle, last_choice>>

\* radio.toggled of a radio button of the question shown: the lambda reads
\* self.selected_section and self.selected_question when the signal arrives
RadioToggled ==
    /\ Clickable
    /\ question_widget = "mcq"
    /\ \E i \in Options, checked \in BOOLEAN :
         _on_mcq_toggled(selected_section, selected_question, i, checked)
    /\ UNCHANGED <<question_json_string, fault, test_title, sections, selected_section,
                   selected_question, question_buttons, question_widget, dialog_open,
                   nav_op>>
    /\ UNCHANGED sessionVars

\* cb.stateChanged of a check box of the question shown; checked is
\* state == Qt.Checked, which is True or False for a checked box depending
\* on how the PySide6 build compares an int with the enum
CheckBoxChanged ==
    /\ Clickable
    /\ question_widget = "msq"
    /\ \E i \in Options, checked \in BOOLEAN :
         _on_msq_changed(selected_section, selected_question, i, checked)
    /\ UNCHANGED <<question_json_string, fault, test_title, sections, selected_section,
                   selected_question, question_buttons, question_widget, dialog_open,
                   nav_op>>
    /\ UNCHANGED sessionVars

\* line_edit.textChanged of the line edit of the question shown
TextChanged ==
    /\ Clickable
    /\ question_widget = "open-ended"
    /\ \E text \in Texts :
         _set_open_answer(selected_section, selected_question, text)
    /\ UNCHANGED <<question_json_string, fault, test_title, sections, selected_section,
                   selected_question, question_buttons, question_widget, dialog_open,
                   nav_op>>
    /\ UNCHANGED sessionVars

\* a session without countdown, constructed from any document
NavInit ==
    /\ duration_minutes = 0
    /\ InitSession
    /\ \E doc \in Documents : InitExam(doc)

NavNext ==
    \/ select_section
    \/ select_question
    \/ go_to_next_question
    \/ DialogClosed
    \/ RadioToggled
    \/ CheckBoxChanged
    \/ TextChanged
    \/ SaveClicked
    \/ EndClicked

NavSpec == NavInit /\ [][NavNext]_vars

\* ---------------------- input events, observed -------------------------
\* keyPressEvent for any key press of AllKeyEvents, with what became of the
\* event: a forbidden key is accepted and the handler returns; any other key
\* is sent to the focus widget or handed to QMainWindow.keyPressEvent
KeyDelivered ==
    /\ Interactive
    /\ \E ev \in AllKeyEvents :
         /\ key_event' = ev
         /\ key_reason' = _handle_forbidden_key(ev[1], ev[2])
         /\ forwarded' = (_handle_forbidden_key(ev[1], ev[2]) = "none")
         /\ IF _handle_forbidden_key(ev[1], ev[2]) # "none"
            THEN _record_violation(_handle_forbidden_key(ev[1], ev[2]))
            ELSE UNCHANGED violationVars
    /\ UNCHANGED <<duration_minutes, now, foreground_timers, save_result>>
    /\ UNCHANGED <<app_state, app_reason, restored>>
    /\ UNCHANGED <<endVars, timerVars, examVars, call_stack>>

\* the single-shot is started only when the violation was recorded
AppStateDelivered_restore_if_recorded ==
    /\ Running
    /\ \E state \in ApplicationStates :
         /\ app_state' = state
         /\ IF state = "ApplicationInactive"
            THEN /\ _record_violation("Application switched or unfocused")
                 /\ app_reason' = "Application switched or unfocused"
                 /\ foreground_timers' = (foreground_timers \/ ~ev_dropped')
                 /\ restored' = FALSE
            ELSE /\ app_reason' = "none"
                 /\ UNCHANGED <<violationVars, foreground_timers, restored>>
    /\ UNCHANGED <<duration_minutes, now, save_result>>
    /\ UNCHANGED <<key_event, forwarded, key_reason>>
    /\ UNCHANGED <<endVars, timerVars, examVars, call_stack>>

\* _on_app_state_changed, with the state delivered and what it asked for
AppStateDelivered ==
    /\ Running
    /\ \E state \in ApplicationStates :
         /\ app_state' = state
         /\ IF state = "ApplicationInactive"
            THEN /\ _record_violation("Application switched or unfocused")
                 /\ app_reason' = "Application switched or unfocused"
                 /\ foreground_timers' = TRUE
                 /\ restored' = FALSE
            ELSE /\ app_reason' = "none"
                 /\ UNCHANGED <<violationVars, foreground_timers, restored>>
    /\ UNCHANGED <<duration_minutes, now, save_result>>
    /\ UNCHANGED <<key_event, forwarded, key_reason>>
    /\ UNCHANGED <<endVars, timerVars, examVars, call_stack>>

\* _enforce_foreground runs: raise_, activateWindow, showFullScreen,
\* grabKeyboard
ForegroundEnforced ==
    /\ Running
    /\ foreground_timers
    /\ foreground_timers' = FALSE
    /\ restored' = TRUE
    /\ UNCHANGED <<duration_minutes, now, save_result>>
    /\ UNCHANGED <<key_event, forwarded, key_reason, app_state, app_reason>>
    /\ UNCHANGED <<endVars, timerVars, violationVars, examVars, call_stack>>

\* the monotonic clock advances by a quarter second
ClockAdvances ==
    /\ Running
    /\ now < MaxMonitorTime
    /\ now' = now + 1
    /\ UNCHANGED <<duration_minutes, foreground_timers, save_result>>
    /\ UNCHANGED <<endVars, timerVars, violationVars, examVars, inputHist>>

\* a session without countdown
MonitorInit ==
    /\ duration_minutes = 0
    /\ InitSession
    /\ InitExam(DefaultDocument)

\* the single-shots of the banner and of end_test are not due before
\* MaxMonitorTime
MonitorNext ==
    \/ KeyDelivered
    \/ AppStateDelivered
    \/ ForegroundEnforced
    \/ ClockAdvances
    \/ EndClicked

MonitorSpec == MonitorInit /\ [][MonitorNext]_vars

\* ---------------------- save_answer, step by step ----------------------
\* SaveClicked and end_test above take a call of save_answer as one step.
\* Here the call is followed through its two points: it is entered (payload
\* built, setDisabled(True)) and it is left (AttributeError raised by
\* Endpoints.UPDATE_ATTEMPT, finally: setDisabled(False)).  What the event
\* loop may deliver between the two is decided by Dispatching.

\* the message boxes of save_answer are reached and run a nested event loop
Dispatching_nested == TRUE

\* the event loop delivers an event only when no handler is running:
\* between setDisabled(True) and the finally clause, save_answer reaches
\* neither requests.post nor a QMessageBox, so no nested loop runs
Dispatching == call_stack = <<>>

\* lines 423-425: payload built, setDisabled(True); caller names the frame
save_answer_enters(caller) ==
    /\ payload' = _build_answer_payload
    /\ answers' = answers
    /\ enabled' = FALSE
    /\ call_stack' = Append(call_stack, caller)

\* lines 322-328 of end_test, up to the call of save_answer
end_test_enters(trigger) ==
    /\ end_calls' = [end_calls EXCEPT ![trigger] = @ + 1]
    /\ IF _ending
       THEN UNCHANGED <<_ending, enabled, terminal_saves, answers, payload,
                        call_stack>>
       ELSE /\ _ending' = TRUE
            /\ terminal_saves' = terminal_saves + 1
            /\ save_answer_enters("end_test")

\* Save button
SaveBegins ==
    /\ Dispatching
    /\ Clickable
    /\ QuestionShown
    /\ save_answer_enters("save_answer")
    /\ UNCHANGED <<duration_minutes, _ending, quit, now, foreground_timers,
                   end_calls, terminal_saves, save_result>>
    /\ UNCHANGED <<key_event, forwarded, key_reason, app_state, app_reason,
                   restored>>
    /\ UNCHANGED <<examVars, violationVars, timerVars>>

\* End Test button
EndBegins ==
    /\ Dispatching
    /\ Clickable
    /\ end_test_enters("user")
    /\ UNCHANGED <<duration_minutes, quit, now, foreground_timers, save_result>>
    /\ UNCHANGED <<key_event, forwarded, key_reason, app_state, app_reason,
                   restored>>
    /\ UNCHANGED <<examVars, violationVars, timerVars>>

\* _tick_countdown, entering end_test when the countdown reaches 0
TickBegins ==
    /\ Dispatching
    /\ Running
    /\ _countdown_timer = "active"
    /\ ticks' = ticks + 1
    /\ IF remaining_seconds > 0
       THEN /\ remaining_seconds' = remaining_seconds - 1
            /\ IF remaining_seconds' = 0 /\ _countdown_timer # "None"
               THEN /\ _countdown_timer' = "stopped"
                    /\ end_test_enters("timer")
               ELSE UNCHANGED <<_countdown_timer, _ending, enabled, end_calls,
                                terminal_saves, answers, payload, call_stack>>
       ELSE UNCHANGED <<remaining_seconds, _countdown_timer, _ending, enabled,
                        end_calls, terminal_saves, answers, payload, call_stack>>
    /\ UNCHANGED <<duration_minutes, quit, now, foreground_timers, save_result>>
    /\ UNCHANGED <<key_event, forwarded, key_reason, app_state, app_reason,
                   restored>>
    /\ UNCHANGED <<examVars, violationVars>>

\* QTimer.singleShot(500, self.end_test) fires
EndTimerBegins ==
    /\ Dispatching
    /\ Running
    /\ \E d \in end_timers :
         /\ d <= now
         /\ end_timers' = end_timers \ {d}
    /\ end_test_enters("violation")
    /\ UNCHANGED <<duration_minutes, quit, now, foreground_timers, save_result>>
    /\ UNCHANGED <<key_event, forwarded, key_reason, app_state, app_reason,
                   restored>>
    /\ UNCHANGED <<violation_count, _last_violation_ts, warning_visible,
                   warning_text, hide_timers, ev_dropped>>
    /\ UNCHANGED <<examVars, timerVars>>

\* the innermost save_answer is left: line 427 raises, finally:
\* setDisabled(False); in end_test the exception goes on through
\* finally: QGuiApplication.quit()
SaveRaises ==
    /\ fault # "AttributeError"
    /\ call_stack # <<>>
    /\ "UPDATE_ATTEMPT" \notin Endpoints
    /\ enabled' = TRUE
    /\ call_stack' = SubSeq(call_stack, 1, Len(call_stack) - 1)
    /\ IF call_stack[Len(call_stack)] = "end_test"
       THEN /\ quit' = TRUE
            /\ save_result' = save_result
       ELSE /\ quit' = quit
            /\ save_result' = "exception"
    /\ UNCHANGED <<duration_minutes, _ending, now, foreground_timers,
                   end_calls, terminal_saves, answers, payload>>
    /\ UNCHANGED <<key_event, forwarded, key_reason, app_state, app_reason,
                   restored>>
    /\ UNCHANGED <<examVars, violationVars, timerVars>>

\* the other events, delivered by the event loop
KeyDispatched == Dispatching /\ keyPressEvent
AppStateDispatched == Dispatching /\ _on_app_state_changed
ForegroundDispatched == Dispatching /\ _enforce_foreground
HideTimerDispatched == Dispatching /\ HideTimerFires

\* how far the clock is followed in a session constructed with duration d
SaveTimeBound(d) == IF d > 0 THEN MaxMonitorTime ELSE MaxTime

\* the monotonic clock advances by a quarter second, also while a handler
\* runs
SaveClockAdvances ==
    /\ Running
    /\ now < SaveTimeBound(duration_minutes)
    /\ now' = now + 1
    /\ UNCHANGED <<duration_minutes, foreground_timers, save_result>>
    /\ UNCHANGED <<endVars, timerVars, violationVars, examVars, inputHist>>

SaveNext ==
    \/ SaveBegins
    \/ EndBegins
    \/ TickBegins
    \/ EndTimerBegins
    \/ SaveRaises
    \/ KeyDispatched
    \/ AppStateDispatched
    \/ ForegroundDispatched
    \/ HideTimerDispatched
    \/ SaveClockAdvances

SaveSpec == Init /\ [][SaveNext]_vars

\* ------------------------------ properties ------------------------------
TotalEndCalls == end_calls["user"] + end_calls["timer"] + end_calls["violation"]

C2_SingleExitPath ==
    /\ quit => _ending /\ TotalEndCalls >= 1
    /\ end_calls["timer"] >= 1 => remaining_seconds = 0
    /\ end_calls["violation"] >= 1 => violation_count >= violation_limit
    /\ violation_count < violation_limit => end_timers = {}
    /\ quit => \/ end_calls["user"] >= 1
               \/ remaining_seconds = 0
               \/ violation_count >= violation_limit

C2_Witness == quit /\ end_calls["user"] = 1 /\ violation_count = 2 /\ remaining_seconds > 0

\* C3: once end_test has begun the application is quit, although the
\* terminal save_answer ended with an exception.
C3_TerminationNotBlocked == _ending => quit /\ terminal_saves = 1

C3_Witness == _ending /\ quit /\ end_calls["timer"] = 1

\* C4 (as claimed): an interactive save_answer that does not succeed reports
\* the failure to the user and leaves the session running, so that the save
\* can be retried and succeed: every interactive save ends saved or reported.
C4_InteractiveSaveReported ==
    /\ save_result \in {"none", "saved", "failure_reported"}
    /\ ~quit => ~_ending /\ enabled

\* C5: after a recorded violation, a violation event less than 0.75 s after
\* the last recorded one is dropped (count and timestamp unchanged) and one
\* 0.75 s or more after it is counted (count + 1, timestamp = now); the
\* interval is measured from the last recorded violation.
C5_Throttle ==
    [][violation_count > 0 =>
        /\ (ev_dropped' /\ ~ev_dropped) =>
              /\ now - _last_violation_ts < Throttle
              /\ UNCHANGED <<violation_count, _last_violation_ts>>
        /\ violation_count' # violation_count =>
              /\ now - _last_violation_ts >= Throttle
              /\ violation_count' = violation_count + 1
              /\ _last_violation_ts' = now
              /\ ~ev_dropped'
        /\ _last_violation_ts' # _last_violation_ts =>
              violation_count' = violation_count + 1]_vars

C5_Witness == violation_count = 2 /\ ev_dropped /\ now - _last_violation_ts = 2

\* C6 (as claimed): before the third recorded violation the monitor never
\* invokes end_test, and a session that has had exactly 3 recorded violations
\* has had end_test invoked exactly once by the monitor when it is over.
C6_Original ==
    /\ violation_count < violation_limit => end_calls["violation"] = 0
    /\ (quit /\ violation_count = violation_limit) => end_calls["violation"] = 1

\* C6 (amended): before the third recorded violation the monitor neither
\* schedules nor invokes end_test; with exactly 3 recorded violations it has
\* scheduled end_test exactly once, 0.5 s after the third, and that call is
\* either still pending or has been made once, not earlier than its
\* deadline; it stays pending for ever only when the application has quit.
C6_ScheduledOnce ==
    /\ violation_count < violation_limit =>
          end_calls["violation"] = 0 /\ end_timers = {}
    /\ violation_count = violation_limit =>
          /\ end_calls["violation"] + Cardinality(end_timers) = 1
          /\ end_timers \subseteq {_last_violation_ts + EndDelay}
          /\ end_calls["violation"] = 1 => now >= _last_violation_ts + EndDelay
    /\ end_calls["violation"] <= 1

C6_Witness == violation_count = violation_limit /\ end_calls["violation"] = 1

\* C7: remaining_seconds is never negative, for every duration_minutes, and
\* a timer tick lowers it by exactly 1 when it is positive and leaves it
\* alone when it is 0; nothing else changes it.
C7_RemainingNeverNegative ==
    /\ [](remaining_seconds >= 0)
    /\ [][ticks' # ticks =>
            /\ ticks' = ticks + 1
            /\ remaining_seconds' = IF remaining_seconds > 0
                                    THEN remaining_seconds - 1
                                    ELSE remaining_seconds]_vars
    /\ [][remaining_seconds' # remaining_seconds => ticks' = ticks + 1]_vars

C7_Witness == ticks = 2 /\ remaining_seconds = SecondsPerMinute - 2

\* C8: with a positive duration the countdown reaches 0 at most once; on
\* the tick that takes it from 1 to 0 the timer is stopped and end_test is
\* invoked, the timer invokes end_test only then, and no tick follows.
C8_ExpiryOnce ==
    duration_minutes > 0 =>
        /\ end_calls["timer"] <= 1
        /\ (remaining_seconds = 0) <=> (end_calls["timer"] = 1)
        /\ (remaining_seconds = 0) <=> (_countdown_timer = "stopped")
        /\ remaining_seconds > 0 => _countdown_timer = "active"
        /\ remaining_seconds = 0 => _ending
        /\ ticks = InitialSeconds(duration_minutes) - remaining_seconds

C8_Witness == duration_minutes > 0 /\ remaining_seconds = 0 /\ end_calls["timer"] = 1

\* C9: with duration_minutes <= 0 the countdown timer is never created:
\* remaining_seconds stays 0, no tick occurs and the timer never invokes
\* end_test.
C9_IdleTimer ==
    duration_minutes <= 0 =>
        /\ _countdown_timer = "None"
        /\ remaining_seconds = 0
        /\ ticks = 0
        /\ end_calls["timer"] = 0

C9_Witness == duration_minutes <= 0 /\ quit /\ end_calls["violation"] = 1

C11_SelectSectionResets ==
    nav_op.op = "select_section" =>
        /\ selected_section = nav_op.arg
        /\ selected_question = 0

C11_Witness ==
    /\ nav_op.op = "select_section"
    /\ nav_op.from_q > 0
    /\ nav_op.from_s # nav_op.arg
    /\ selected_question = 0

\* C12: after go_to_next_question called at question q of section s, and
\* until the next navigation call, the section is still s and the question
\* is q + 1 when q was not the last question of s, and still q when it was
\* the last, when s has no question or when the exam has no section.
C12_NextQuestion ==
    nav_op.op = "next" =>
        /\ selected_section = nav_op.from_s
        /\ selected_question =
              IF /\ sections # <<>>
                 /\ nav_op.from_q < Len(sections[nav_op.from_s + 1]) - 1
              THEN nav_op.from_q + 1
              ELSE nav_op.from_q

C12_Witness ==
    /\ nav_op.op = "next"
    /\ Len(sections) = 2
    /\ nav_op.from_s = 0
    /\ nav_op.from_q = Len(sections[1]) - 1
    /\ selected_section = 0
    /\ selected_question = nav_op.from_q
    /\ dialog_open

\* the payload P has an entry for question q of section s
HasEntry(P, s, q) ==
    \E i \in 1..Len(P.sections) :
        /\ P.sections[i].sectionId = s + 1
        /\ \E j \in 1..Len(P.sections[i].answers) :
               P.sections[i].answers[j].questionNumber = q + 1

\* the payload P has an element for section s
HasSection(P, s) ==
    \E i \in 1..Len(P.sections) : P.sections[i].sectionId = s + 1

\* the condition C13 gives for question q of section s to be emitted
StoredNonEmpty(s, q) ==
    /\ answers[<<s, q>>].tag # "None"
    /\ TypeOf(s, q) = "msq" => answers[<<s, q>>].set # {}
    /\ TypeOf(s, q) = "open-ended" => strip(answers[<<s, q>>].str) # <<>>

\* C13: the payload returned by _build_answer_payload has an entry for
\* question q of section s exactly when a value is stored for (s, q) that
\* is, for msq, a non-empty set and, for open-ended, a text that is not blank
\* once trimmed; it has an element for section s exactly when one of the
\* questions of s has an entry.  So the text "" is omitted and " x " emitted.
C13_PayloadEntries ==
    payload.built =>
        /\ \A slot \in Slots(sections) :
              /\ HasEntry(payload, slot[1], slot[2]) <=> StoredNonEmpty(slot[1], slot[2])
              /\ answers[slot] = StrAnswer(<<>>) => ~HasEntry(payload, slot[1], slot[2])
              /\ answers[slot] = StrAnswer(<<" ", "x", " ">>) =>
                    HasEntry(payload, slot[1], slot[2])
        /\ \A s \in 0..(Len(sections) - 1) :
              HasSection(payload, s) <=>
                  \E q \in 0..(Len(sections[s + 1]) - 1) : StoredNonEmpty(s, q)

C13_Witness ==
    /\ payload.built
    /\ \E slot \in Slots(sections) :
          answers[slot] = StrAnswer(<<" ", "x", " ">>) /\ HasEntry(payload, slot[1], slot[2])
    /\ \E slot \in Slots(sections) :
          answers[slot] = SetAnswer({}) /\ ~HasEntry(payload, slot[1], slot[2])

\* the sequence seq is strictly ascending
StrictlyAscending(seq) == \A i \in 1..(Len(seq) - 1) : seq[i] < seq[i + 1]

\* C14: whatever toggles led to it, a non-empty stored msq set is emitted as
\* a CorrectOptions list that is strictly ascending and lists exactly the
\* options of the set.
C14_CorrectOptionsSorted ==
    payload.built =>
        \A i \in 1..Len(payload.sections) :
            \A j \in 1..Len(payload.sections[i].answers) :
                LET e == payload.sections[i].answers[j]
                    stored == answers[<<payload.sections[i].sectionId - 1,
                                        e.questionNumber - 1>>]
                IN  e.field = "CorrectOptions" =>
                        /\ StrictlyAscending(e.CorrectOptions)
                        /\ {e.CorrectOptions[k] : k \in 1..Len(e.CorrectOptions)} = stored.set
                        /\ stored.set # {}

C14_Witness ==
    /\ payload.built
    /\ \E slot \in Slots(sections) :
          /\ answers[slot] = SetAnswer({1, 3})
          /\ last_toggle[slot][2] = "deselected"
          /\ HasEntry(payload, slot[1], slot[2])

\* C15: a call of _build_answer_payload changes neither the answers nor the
\* navigation nor anything else of the exam, and as long as no answer is
\* written after a call, a further call would return, and does return, the
\* same payload, whatever navigation happened in between.
C15_PayloadPureRead ==
    /\ [](payload.built => payload = _build_answer_payload)
    /\ [][payload'.built /\ payload' # payload => UNCHANGED <<answers, examVars>>]_vars

C15_Witness ==
    /\ save_result = "exception"
    /\ terminal_saves = 1
    /\ payload.built
    /\ Len(payload.sections) = 1
    /\ nav_op.op = "next"

\* the tag of the values stored for a question of type t
TagOf(t) ==
    IF t = "mcq" THEN "int"
    ELSE IF t = "msq" THEN "set"
    ELSE IF t = "open-ended" THEN "str"
    ELSE "None"

\* C16: every value in the answer store has the tag of the declared type of
\* its question: int for mcq, set for msq, str for open-ended, and nothing
\* is stored for a question of another type.
C16_AnswerTagMatchesType ==
    \A slot \in Slots(sections) :
        answers[slot].tag \in {"None", TagOf(TypeOf(slot[1], slot[2]))}

C16_Witness ==
    /\ \E slot \in Slots(sections) : answers[slot].tag = "int"
    /\ \E slot \in Slots(sections) : answers[slot].tag = "set"
    /\ \E slot \in Slots(sections) : answers[slot].tag = "str"
    /\ nav_op.op = "select_question"

\* the options of a slot whose latest toggle selected them
SelectedLast(slot) == {o \in Options : last_toggle[slot][o] = "selected"}

\* C17: the set stored for an msq question is exactly the set of options
\* whose latest toggle was 'selected' (nothing is stored before the first
\* toggle), and no toggle raises an error; the payload lists that set.
C17_StoredSetIsLatestToggles ==
    /\ fault # "IndexError"
    /\ \A slot \in Slots(sections) :
          /\ answers[slot].tag = "set" => answers[slot].set = SelectedLast(slot)
          /\ answers[slot].tag # "set" => \A o \in Options : last_toggle[slot][o] = "never"
          /\ payload.built /\ SelectedLast(slot) # {} =>
                \E i \in 1..Len(payload.sections) :
                    \E j \in 1..Len(payload.sections[i].answers) :
                        LET e == payload.sections[i].answers[j]
                        IN  /\ payload.sections[i].sectionId = slot[1] + 1
                            /\ e.questionNumber = slot[2] + 1
                            /\ {e.CorrectOptions[k] : k \in 1..Len(e.CorrectOptions)}
                                   = SelectedLast(slot)

C17_Witness ==
    /\ payload.built
    /\ Len(payload.sections) = 1
    /\ Len(payload.sections[1].answers) = 1
    /\ payload.sections[1].answers[1].CorrectOptions = <<3>>
    /\ \E slot \in Slots(sections) :
          /\ last_toggle[slot][1] = "deselected"
          /\ last_toggle[slot][2] = "never"
          /\ last_toggle[slot][3] = "selected"

\* the forbidden combination a key press matches, "none" when it matches
\* none; the OS-menu key counts with whatever modifiers are held
Combination(key, mods) ==
    IF key = "Key_Tab" /\ "AltModifier" \in mods THEN "Alt+Tab"
    ELSE IF key = "Key_F4" /\ "AltModifier" \in mods THEN "Alt+F4"
    ELSE IF key \in {"Key_Meta", "Key_Super_L", "Key_Super_R"} THEN "Windows key"
    ELSE IF key = "Key_Escape" /\ {"ControlModifier", "ShiftModifier"} \subseteq mods
         THEN "Ctrl+Shift+Esc"
    ELSE IF key = "Key_Escape" /\ "ControlModifier" \in mods THEN "Ctrl+Esc"
    ELSE "none"

\* the reason that names a combination
ReasonNaming(c) ==
    IF c = "Alt+Tab" THEN "Alt+Tab detected"
    ELSE IF c = "Alt+F4" THEN "Alt+F4 detected"
    ELSE IF c = "Windows key" THEN "Windows key detected"
    ELSE IF c = "Ctrl+Shift+Esc" THEN "Ctrl+Shift+Esc detected"
    ELSE IF c = "Ctrl+Esc" THEN "Ctrl+Esc detected"
    ELSE "none"

\* C18 (as claimed): a key press that matches a forbidden combination is not
\* passed on, also when the throttle drops it, and is given to the violation
\* monitor with the reason that names its combination.
C18_ForbiddenKeysSwallowed ==
    Combination(key_event[1], key_event[2]) # "none" =>
        /\ ~forwarded
        /\ key_reason = ReasonNaming(Combination(key_event[1], key_event[2]))

\* C19: a change of the application to inactive gives the violation monitor
\* a focus-loss violation and starts a zero-delay single-shot for
\* _enforce_foreground, also when the throttle drops the violation; the
\* pending single-shot goes away only by _enforce_foreground running.
C19_FocusLossRestores ==
    /\ [](app_state = "ApplicationInactive" =>
            /\ app_reason = "Application switched or unfocused"
            /\ foreground_timers \/ restored)
    /\ [][app_state' = "ApplicationInactive" /\ ~restored' /\ restored
            => foreground_timers']_vars
    /\ [][foreground_timers /\ ~foreground_timers' => restored']_vars

C19_Witness ==
    /\ app_state = "ApplicationInactive"
    /\ key_event[1] = "none"
    /\ ev_dropped
    /\ violation_count = 0
    /\ foreground_timers
    /\ ~restored

\* C20 (as claimed): for a malformed document (a text that is not JSON, a
\* JSON value that is not an object, an object without "title" or without
\* "sections") the constructor completes, the missing title is "Test" and
\* the missing sections are none, and no later operation raises.
C20_MalformedDegrades ==
    Malformed(question_json_string) =>
        /\ fault = "none"
        /\ question_json_string.json # "object" => test_title = "Test" /\ sections = <<>>
        /\ ~question_json_string.has_title => test_title = "Test"
        /\ ~question_json_string.has_sections => sections = <<>>

C22_FinalWarningStaysVisible ==
    (~quit /\ violation_count >= violation_limit
           /\ \E d \in end_timers : now < d) =>
        /\ warning_visible
        /\ warning_text[1] = violation_count

\* C23: in the payload the sections are in ascending order of sectionId,
\* which is the position of a section plus 1, and within a section the
\* answers are in ascending order of questionNumber, which is the position
\* of a question plus 1, so no question has two entries; the CorrectOption
\* of an mcq question is the option of its most recent selection.  So
\* option 2 selected last for the first question of the first section is
\* emitted as questionNumber 1, CorrectOption 2 under sectionId 1.
C23_PayloadOrder ==
    payload.built =>
        /\ StrictlyAscending([i \in 1..Len(payload.sections) |->
                                  payload.sections[i].sectionId])
        /\ \A i \in 1..Len(payload.sections) :
              LET sec == payload.sections[i]
              IN  /\ sec.sectionId \in 1..Len(sections)
                  /\ StrictlyAscending([j \in 1..Len(sec.answers) |->
                                            sec.answers[j].questionNumber])
                  /\ \A j \in 1..Len(sec.answers) :
                        LET e == sec.answers[j]
                            slot == <<sec.sectionId - 1, e.questionNumber - 1>>
                        IN  /\ slot \in Slots(sections)
                            /\ e.field = "CorrectOption" =>
                                  /\ TypeOf(slot[1], slot[2]) = "mcq"
                                  /\ last_choice[slot] \in Options
                                  /\ e.CorrectOption = last_choice[slot]
        /\ (sections # <<>> /\ sections[1] # <<>> /\ TypeOf(0, 0) = "mcq"
                /\ last_choice[<<0, 0>>] = 2) =>
              /\ payload.sections[1].sectionId = 1
              /\ payload.sections[1].answers[1].questionNumber = 1
              /\ payload.sections[1].answers[1].field = "CorrectOption"
              /\ payload.sections[1].answers[1].CorrectOption = 2

C23_Witness ==
    /\ payload.built
    /\ Len(payload.sections) = 2
    /\ payload.sections[2].sectionId = 2
    /\ last_choice[<<1, 0>>] = 2
    /\ payload.sections[2].answers[1].CorrectOption = 2

\* the current indices name a section of the exam and, when that section
\* has questions, one of its questions
IndicesValid ==
    /\ selected_section \in 0..(Len(sections) - 1)
    /\ sections[selected_section + 1] # <<>> =>
          selected_question \in 0..(Len(sections[selected_section + 1]) - 1)

\* C24 as stated: in every window, after any calls of select_section,
\* select_question and go_to_next_question with indices the buttons offer,
\* the current section index is a valid section position and the current
\* question index a valid question position of a non-empty current section.
C24_Original == fault # "AttributeError" => IndicesValid

\* C24: the same, for every window whose exam has at least one section; in
\* an exam without sections both indices stay 0 and no position is valid.
C24_IndicesValid ==
    /\ (fault # "AttributeError" /\ sections # <<>>) => IndicesValid
    /\ (fault # "AttributeError" /\ sections = <<>>) =>
          selected_section = 0 /\ selected_question = 0

C24_Witness ==
    /\ nav_op.op = "next"
    /\ nav_op.from_q = 2
    /\ selected_question = 2
    /\ dialog_open
    /\ IndicesValid

\* C25: a step in which a key press or an application state change hands
\* the monitor an event that the throttle drops leaves violation_count, the
\* last-recorded timestamp, the banner and the pending end_test and
\* auto-hide single-shots as they were.
C25_DroppedChangesNothing ==
    [][((keyPressEvent \/ _on_app_state_changed) /\ ev_dropped') =>
           UNCHANGED <<violation_count, _last_violation_ts, warning_visible,
                       warning_text, end_timers, hide_timers>>]_vars

C25_Witness ==
    /\ ev_dropped
    /\ violation_count = 2
    /\ warning_visible
    /\ warning_text[1] = 2
    /\ Cardinality(hide_timers) = 2
    /\ end_timers = {}
    /\ foreground_timers

\* C26: the first violation event of a session is recorded whatever the
\* clock shows: the throttle never drops an event while violation_count
\* is 0.
C26_FirstViolationRecorded == ev_dropped => violation_count >= 1

\* C27: a step of select_section, select_question or go_to_next_question,
\* and any step that changes the current indices or the question shown,
\* leaves the answer store as it was; a step of an answer-input handler,
\* and any step that changes the answer store, leaves the section and
\* question indices as they were.
C27_NavigationAndInputDisjoint ==
    [][/\ (\/ select_section \/ select_question \/ go_to_next_question
           \/ nav_op' # nav_op
           \/ selected_section' # selected_section
           \/ selected_question' # selected_question
           \/ question_widget' # question_widget) => answers' = answers
       /\ (\/ RadioToggled \/ CheckBoxChanged \/ TextChanged
           \/ answers' # answers
           \/ last_toggle' # last_toggle
           \/ last_choice' # last_choice) =>
             UNCHANGED <<selected_section, selected_question>>]_vars

C27_Witness ==
    /\ nav_op.op = "next"
    /\ nav_op.from_q = 0
    /\ selected_question = 1
    /\ answers[<<0, 0>>] = IntAnswer(2)
    /\ answers[<<0, 1>>] = SetAnswer({1})

\* C28: the answer store is empty when the window is constructed, and no
\* step deletes an entry: a stored value stays stored; a step that changes
\* the value of a question, selects an mcq option or toggles an msq box
\* leaves an entry for that question; the entry of an mcq question always
\* holds one of its options, while an msq or open-ended entry may hold the
\* empty set or the empty text.
C28_AnswerStoreOnlyGrows ==
    /\ \A slot \in DOMAIN answers : answers[slot] = NoAnswer
    /\ [][\A slot \in DOMAIN answers :
            /\ answers[slot].tag # "None" => answers'[slot].tag # "None"
            /\ answers'[slot] # answers[slot] => answers'[slot].tag # "None"
            /\ last_choice'[slot] # last_choice[slot] => answers'[slot].tag = "int"
            /\ last_toggle'[slot] # last_toggle[slot] => answers'[slot].tag = "set"
            /\ answers[slot].tag = "int" =>
                  answers'[slot].tag = "int" /\ answers'[slot].int \in Options]_vars

C28_Witness ==
    /\ <<0, 2>> \in DOMAIN answers
    /\ answers[<<0, 0>>] = IntAnswer(3)
    /\ answers[<<0, 1>>] = SetAnswer({})
    /\ last_toggle[<<0, 1>>][1] = "deselected"
    /\ answers[<<0, 2>>] = StrAnswer(<<>>)

====
